---- MODULE Spec2Model ----
(***************************************************************************)
(* OptiScan: course-partitioned FAISS gallery, student store, attendance   *)
(* log, and the enrolment / recognition services built on them.            *)
(*                                                                         *)
(* Persistent state (survives a session): the SQLite tables `students` and *)
(* `attendance`, and one FAISS file per course.  Session state: the        *)
(* FaissIndex.indices dictionary created by the start-up block of app.py.  *)
(*                                                                         *)
(* An embedding is represented by its width and its first coordinate; all  *)
(* other coordinates are 0, so the squared L2 distance of two embeddings   *)
(* is the square of the difference of the first coordinates.  Distances    *)
(* and the acceptance threshold are counted in tenths (0.4 is 4).          *)
(***************************************************************************)
EXTENDS Integers, Sequences, FiniteSets, TLC

\* ------------------------------------------------------------- config.py
EMBEDDING_DIM == 512

FAISS_THRESHOLD == 4

\* keys of the COURSES dictionary, in insertion order
COURSES == <<"", "AI", "GD">>

CourseIds == {COURSES[i] : i \in 1..Len(COURSES)}

\* ---------------------------------------------------------------- bounds
\* rows the students table may hold
MaxStudents == 2

\* vectors one in-memory course index may hold
MaxVectors == 2

\* rows the attendance table may hold
MaxAttendance == 1

\* storage / file failures injected in one run
MaxFaults == 1

\* ---------------------------------------------------------------- inputs
\* the people who fill in the registration form
Applicants == {[student_id |-> 1000, name |-> "Ada"],
               [student_id |-> 1001, name |-> "Bob"]}

\* An uploaded image, described by what the extractor makes of it: no
\* detectable eye region, an embedding of the configured width with first
\* coordinate pt, or an embedding of another width (another extractor model).
NoFace == [face |-> FALSE, dim |-> EMBEDDING_DIM, pt |-> 0]

Face(p) == [face |-> TRUE, dim |-> EMBEDDING_DIM, pt |-> p]

Narrow == [face |-> TRUE, dim |-> 128, pt |-> 0]

\* images uploaded on the registration form
RegistrationImages == {NoFace, Narrow, Face(0), Face(1)}

\* images uploaded on the attendance tab: at squared distance 0, 1 (below
\* the threshold), 4 (equal to it) or 9 (above it) of the registered ones
AttendanceImages == {NoFace, Narrow, Face(0), Face(1), Face(3)}

\* Python's None, and a present value
None == <<>>

Some(x) == <<x>>

\* ------------------------------------------------------------- messages
MsgNoEyes == "Failed to detect eye region"

MsgNotRegistered == "Sorry, you are not registered in this course"

MsgInvalidIndex == "FAISS search returned invalid index"

MsgDuplicate == "Student is already registered in course"

MsgBadDim == "Unexpected embedding dimension"

MsgDbError == "Database error"

MsgRegistered == "Student registered successfully and FAISS index updated"

MsgMarked == "Attendance marked"

MsgAttendanceError == "Error marking attendance"

\* the messages of the outermost `except Exception` of the two services
MsgUnexpected == "Error"

MsgUnexpectedAttendance == "Error during attendance marking"

\* ----------------------------------------------------------------- state
VARIABLES
    students,    \* rows of table students, in rowid order
    attendance,  \* rows of table attendance, in id order
    disk,        \* course id -> vectors of faiss_index_<course>.bin, or None
    up,          \* the session's start-up block has run
    indices,     \* FaissIndex.indices: course id -> (index, ids, names)
    ret,         \* what the service call of this script run returned
    obs,         \* history: the call's inputs, the branch it took and,
                 \* for a call of FaissIndex itself, what it returned
    enrolled,    \* history: the enrolments that succeeded in this session
    faults,      \* history: failures injected so far
    threads      \* other sessions' script threads at work on the index
                 \* files: where each one is, and its own FaissIndex

vars == <<students, attendance, disk, up, indices, ret, obs, enrolled, faults,
          threads>>

\* {} : the indices dictionary of a new FaissIndex
EmptyDict == [c \in {} |-> 0]

\* browser sessions, each with a script thread and a FaissIndex of its own
Sessions == {1, 2}

\* a session's thread between two requests.  student_id, name, embedding:
\* the locals of the register_student call it last served; result: what
\* that call returned; overlapped (history): another session was inside a
\* register_student call for the same pair while that call ran
Resting == [pc |-> "idle", course |-> "", indices |-> EmptyDict,
            student_id |-> None, name |-> None, embedding |-> None,
            result |-> None, overlapped |-> FALSE]

NoRet == [op |-> "none", ok |-> FALSE, student_id |-> None, name |-> None,
          message |-> ""]

NoObs == [op |-> "none", branch |-> "", student_id |-> None, name |-> None,
          course |-> "", image |-> None, D |-> None, I |-> None,
          indexed |-> FALSE, searched |-> FALSE, failed |-> {},
          args |-> <<>>, result |-> <<>>, raised |-> FALSE,
          path |-> <<>>]

\* d with d[k] := v, as a dictionary assignment
Put(d, k, v) == [x \in (DOMAIN d) \cup {k} |-> IF x = k THEN v ELSE d[x]]

\* ------------------------------------------------------ extract_embeddings
extract_embedding(image) ==
    IF image.face
    THEN [embedding |-> Some([dim |-> image.dim, pt |-> image.pt]),
          error |-> None]
    ELSE [embedding |-> None, error |-> Some(MsgNoEyes)]

\* ------------------------------------------------------------- database
\* SELECT 1 FROM students WHERE id = ? AND course_id = ?
HasRow(rows, student_id, course_id) ==
    \E i \in 1..Len(rows) :
        rows[i].id = student_id /\ rows[i].course_id = course_id

\* Database.check_duplicate: a failing query is logged and answered False
check_duplicate(rows, student_id, course_id, sqlError) ==
    IF sqlError THEN FALSE ELSE HasRow(rows, student_id, course_id)

\* INSERT OR REPLACE: a row of the same key is deleted, the new row gets
\* the next rowid
InsertOrReplace(rows, row) ==
    Append(SelectSeq(rows,
               LAMBDA r : ~(r.id = row.id /\ r.course_id = row.course_id)),
           row)

\* INSERT OR REPLACE: the row values
Row(student_id, name, course_id, embedding) ==
    [id |-> student_id, name |-> name, course_id |-> course_id,
     embedding |-> embedding]

\* a store whose failed INSERT is not rolled back
db_register_student_partial(rows, student_id, name, course_id, embedding, sqlError) ==
    IF embedding.dim # EMBEDDING_DIM
    THEN [ok |-> FALSE, message |-> MsgBadDim, rows |-> rows]
    ELSE [ok |-> ~sqlError,
          message |-> IF sqlError THEN MsgDbError ELSE MsgRegistered,
          rows |-> InsertOrReplace(rows,
                       Row(student_id, name, course_id, embedding))]

\* Database.register_student: (ok, message, rows afterwards); a failed
\* INSERT is rolled back by `with self.connection`
db_register_student(rows, student_id, name, course_id, embedding, sqlError) ==
    IF embedding.dim # EMBEDDING_DIM
    THEN [ok |-> FALSE, message |-> MsgBadDim, rows |-> rows]
    ELSE IF sqlError
    THEN [ok |-> FALSE, message |-> MsgDbError, rows |-> rows]
    ELSE [ok |-> TRUE, message |-> MsgRegistered,
          rows |-> InsertOrReplace(rows,
                       Row(student_id, name, course_id, embedding))]

\* Database.fetch_students: `if course_id:` filters only for a non-empty
\* course id, and `students or None` turns an empty result into None
fetch_students(rows, course_id, sqlError) ==
    IF sqlError THEN None
    ELSE LET found == IF course_id # ""
                      THEN SelectSeq(rows, LAMBDA r : r.course_id = course_id)
                      ELSE rows
         IN  IF found = <<>> THEN None ELSE Some(found)

\* a store whose failed attendance INSERT is not rolled back
db_mark_attendance_uncommitted(events, student_id, course_id, sqlError) ==
    [ok |-> ~sqlError,
     message |-> IF sqlError THEN MsgAttendanceError ELSE MsgMarked,
     rows |-> Append(events, [student_id |-> student_id,
                              course_id |-> course_id])]

\* Database.mark_attendance: (ok, message, rows afterwards); the
\* attendance table's foreign key is not enforced by the connection
db_mark_attendance(events, student_id, course_id, sqlError) ==
    IF sqlError
    THEN [ok |-> FALSE, message |-> MsgAttendanceError, rows |-> events]
    ELSE [ok |-> TRUE, message |-> MsgMarked,
          rows |-> Append(events, [student_id |-> student_id,
                                   course_id |-> course_id])]

\* ------------------------------------------------------------ faiss_index
\* A stored vector.  `by` is history: the identifier and name the vector
\* was added with; no operation of the index reads it.
Vector(embedding, student_id, name) ==
    [embedding |-> embedding, by |-> <<student_id, name>>]

\* squared L2 distance, in tenths
Distance(a, b) == (a.pt - b.pt) * (a.pt - b.pt)

\* the tuple (index, student_ids, names) held for one course
Entry(index, student_ids, names) ==
    [index |-> index, student_ids |-> student_ids, names |-> names]

\* `course_id not in self.indices or self.indices[course_id][0] is None`
Uninitialised(idx, course_id) ==
    course_id \notin DOMAIN idx \/ idx[course_id].index = None

\* FaissIndex.build_index: `rows` are the embeddings, in order.  The new
\* tuple is stored before faiss.write_index runs; every error is re-raised.
build_index(idx, dsk, embeddings, student_ids, names, course_id, ioError) ==
    IF Len(embeddings) = 0
    THEN [indices |-> idx, disk |-> dsk, raised |-> FALSE]
    ELSE IF Len(embeddings) # Len(student_ids) \/ Len(embeddings) # Len(names)
    THEN [indices |-> idx, disk |-> dsk, raised |-> TRUE]
    ELSE IF \E i \in 1..Len(embeddings) : embeddings[i].dim # EMBEDDING_DIM
    THEN [indices |-> idx, disk |-> dsk, raised |-> TRUE]
    ELSE LET index == [i \in 1..Len(embeddings) |->
                          Vector(embeddings[i], student_ids[i], names[i])]
             built == Put(idx, course_id,
                          Entry(Some(index), student_ids, names))
         IN  IF ioError
             THEN [indices |-> built, disk |-> dsk, raised |-> TRUE]
             ELSE [indices |-> built,
                   disk |-> [dsk EXCEPT ![course_id] = Some(index)],
                   raised |-> FALSE]

\* a load that keeps the identifier and name lists the course had
load_index_keeping(idx, dsk, course_id, ioError) ==
    LET old == IF course_id \in DOMAIN idx THEN idx[course_id]
               ELSE Entry(None, <<>>, <<>>)
    IN  IF dsk[course_id] # None /\ ~ioError
        THEN Put(idx, course_id,
                 Entry(dsk[course_id], old.student_ids, old.names))
        ELSE Put(idx, course_id, Entry(None, <<>>, <<>>))

\* FaissIndex.load_index: never raises
load_index(idx, dsk, course_id, ioError) ==
    IF dsk[course_id] # None /\ ~ioError
    THEN Put(idx, course_id, Entry(dsk[course_id], <<>>, <<>>))
    ELSE Put(idx, course_id, Entry(None, <<>>, <<>>))

\* an append into a dictionary that holds one index for all courses
update_index_single(idx, dsk, embedding, student_id, name, course_id, ioError) ==
    IF embedding.dim # EMBEDDING_DIM
    THEN [indices |-> idx, disk |-> dsk, logged_error |-> TRUE]
    ELSE LET cur == IF Uninitialised(idx, course_id)
                    THEN Entry(Some(<<>>), <<>>, <<>>)
                    ELSE idx[course_id]
             index == Append(cur.index[1], Vector(embedding, student_id, name))
             added == Put(EmptyDict, course_id,
                          Entry(Some(index),
                                Append(cur.student_ids, student_id),
                                Append(cur.names, name)))
         IN  IF ioError
             THEN [indices |-> added, disk |-> dsk, logged_error |-> TRUE]
             ELSE [indices |-> added,
                   disk |-> [dsk EXCEPT ![course_id] = Some(index)],
                   logged_error |-> FALSE]

\* FaissIndex.update_index: every error is logged and swallowed
update_index(idx, dsk, embedding, student_id, name, course_id, ioError) ==
    IF embedding.dim # EMBEDDING_DIM
    THEN [indices |-> idx, disk |-> dsk, logged_error |-> TRUE]
    ELSE LET cur == IF Uninitialised(idx, course_id)
                    THEN Entry(Some(<<>>), <<>>, <<>>)
                    ELSE idx[course_id]
             index == Append(cur.index[1], Vector(embedding, student_id, name))
             added == Put(idx, course_id,
                          Entry(Some(index),
                                Append(cur.student_ids, student_id),
                                Append(cur.names, name)))
         IN  IF ioError
             THEN [indices |-> added, disk |-> dsk, logged_error |-> TRUE]
             ELSE [indices |-> added,
                   disk |-> [dsk EXCEPT ![course_id] = Some(index)],
                   logged_error |-> FALSE]

\* IndexFlatL2.search with k = 1: the least distance, and the first
\* position (from 0) that has it
Nearest(index, query) ==
    LET d(i) == Distance(index[i].embedding, query)
        best == CHOOSE i \in 1..Len(index) :
                    \A j \in 1..Len(index) :
                        d(i) < d(j) \/ (d(i) = d(j) /\ i <= j)
    IN  [D |-> d(best), I |-> best - 1]

NoMatch == [D |-> None, I |-> None, student_ids |-> <<>>, names |-> <<>>]

\* a search that does not test the width of the query
search_unchecked(idx, embedding, course_id) ==
    IF Uninitialised(idx, course_id) THEN NoMatch
    ELSE IF Len(idx[course_id].index[1]) = 0 THEN NoMatch
    ELSE LET hit == Nearest(idx[course_id].index[1], embedding)
         IN  [D |-> Some(hit.D), I |-> Some(hit.I),
              student_ids |-> idx[course_id].student_ids,
              names |-> idx[course_id].names]

\* FaissIndex.search: (distances, indices, student_ids, names)
search(idx, embedding, course_id) ==
    IF Uninitialised(idx, course_id) THEN NoMatch
    ELSE IF Len(idx[course_id].index[1]) = 0 THEN NoMatch
    ELSE IF embedding.dim # EMBEDDING_DIM THEN NoMatch
    ELSE LET hit == Nearest(idx[course_id].index[1], embedding)
         IN  [D |-> Some(hit.D), I |-> Some(hit.I),
              student_ids |-> idx[course_id].student_ids,
              names |-> idx[course_id].names]

\* ------------------------------------------------------ register_students
\* an error that leaves the function: no handler around its body
Propagated(r) == [r EXCEPT !.raised = TRUE]

\* `except Exception as e:` around the body of register_student and of
\* mark_attendance: the error becomes the returned failure result
Caught(r) == [r EXCEPT !.raised = FALSE]

\* register_student.  F holds the call sites at which the environment
\* fails this call: "check" (the duplicate SELECT), "insert" (the INSERT),
\* "file" (faiss.write_index).  `hit` is the part of F that was reached.
\* The message stands for its text without the interpolated values.
\* "unexpected": the duplicate check raises an error that is not a
\* sqlite3.Error, which check_duplicate lets through.  `raised`: the call
\* ended in an exception instead of returning.
register_student(rows, idx, dsk, student_id, name, course_id, image, F) ==
    LET stop(branch, message, hit) ==
            [ok |-> FALSE, message |-> message, rows |-> rows,
             indices |-> idx, disk |-> dsk, branch |-> branch,
             indexed |-> FALSE, hit |-> hit, raised |-> FALSE]
        checked == F \cap {"check"}
        ex == extract_embedding(image)
    IN  IF "unexpected" \in F
        THEN Caught(stop("unexpected", MsgUnexpected, {"unexpected"}))
        ELSE IF check_duplicate(rows, student_id, course_id, "check" \in F)
        THEN stop("duplicate", MsgDuplicate, checked)
        ELSE IF ex.embedding = None
        THEN stop("extract_failed", ex.error[1], checked)
        ELSE IF ex.embedding[1].dim # EMBEDDING_DIM
        THEN stop("bad_dim", MsgBadDim, checked)
        ELSE LET w == db_register_student(rows, student_id, name, course_id,
                                          ex.embedding[1], "insert" \in F)
             IN  IF ~w.ok
                 THEN [stop("db_failed", w.message,
                            checked \cup {"insert"}) EXCEPT !.rows = w.rows]
                 ELSE LET u == update_index(idx, dsk, ex.embedding[1],
                                   student_id, name, course_id, "file" \in F)
                      IN  [ok |-> TRUE, message |-> w.message,
                           rows |-> w.rows, indices |-> u.indices,
                           disk |-> u.disk, branch |-> "registered",
                           indexed |-> ~u.logged_error,
                           hit |-> checked \cup (F \cap {"file"}),
                           raised |-> FALSE]

\* -------------------------------------------------------- mark_attendance
\* a threshold test that also accepts a distance equal to the threshold
Accepted_inclusive(distance) == distance <= FAISS_THRESHOLD

\* `if distance < FAISS_THRESHOLD:`
Accepted(distance) == distance < FAISS_THRESHOLD

\* the three returns of "Sorry, you are not registered in this course":
\* empty roster, failed search, nearest vector not accepted
NoRosterReturn == <<None, None, MsgNotRegistered>>

SearchFailedReturn == <<None, None, MsgNotRegistered>>

\* a rejection that tells a poor match from an empty roster
NoMatchReturn_telling == <<None, None, "No match found">>

\* the return of the `else` of the threshold test
NoMatchReturn == <<None, None, MsgNotRegistered>>

\* a bounds test that lets the position just past the end through
InvalidIndex_beyond(i, student_ids) == i > Len(student_ids)

\* `if I[0][0] >= len(student_ids):`
InvalidIndex(i, student_ids) == i >= Len(student_ids)

\* mark_attendance.  F: "fetch" (the roster SELECT fails), "unexpected"
\* (reading the search result at `distance = D[0][0]` raises), "attend" (the
\* attendance INSERT fails).  `result` is the returned triple, `path` the
\* steps the call went through, in order: "Extracting" (extract_embedding),
\* "Fetching" (fetch_students), "Searching" (search), "Deciding" (the
\* threshold test), then "Accepted" (the bounds test and the look-up) and
\* "Logging" (db.mark_attendance), or "Rejected".
mark_attendance(rows, events, idx, image, course_id, F) ==
    LET out(branch, result, evs, D, I, searched, hit, path) ==
            [result |-> result, events |-> evs, branch |-> branch,
             D |-> D, I |-> I, searched |-> searched, hit |-> hit,
             raised |-> FALSE, path |-> path]
        ex == extract_embedding(image)
        fetched == F \cap {"fetch"}
        sought == <<"Extracting", "Fetching", "Searching">>
    IN  IF ex.embedding = None
        THEN out("extract_failed", <<None, None, ex.error[1]>>, events,
                 None, None, FALSE, {}, <<"Extracting">>)
        ELSE IF fetch_students(rows, course_id, "fetch" \in F) = None
        THEN out("no_students", NoRosterReturn, events,
                 None, None, FALSE, fetched, <<"Extracting", "Fetching">>)
        ELSE LET r == search(idx, ex.embedding[1], course_id)
             IN  IF r.D = None \/ r.I = None
                 THEN out("search_failed", SearchFailedReturn, events,
                          None, None, TRUE, fetched, sought)
                 ELSE IF "unexpected" \in F
                 THEN Caught(out("unexpected",
                                 <<None, None, MsgUnexpectedAttendance>>,
                                 events, None, None, TRUE,
                                 fetched \cup {"unexpected"}, sought))
                 ELSE IF Accepted(r.D[1])
                 THEN IF InvalidIndex(r.I[1], r.student_ids)
                      THEN out("invalid_index",
                               <<None, None, MsgInvalidIndex>>, events,
                               r.D, r.I, TRUE, fetched,
                               sought \o <<"Deciding", "Accepted">>)
                      ELSE IF \/ r.I[1] + 1 \notin DOMAIN r.student_ids
                              \/ r.I[1] + 1 \notin DOMAIN r.names
                      \* IndexError of the look-up, caught by the handler
                      THEN Caught(out("unexpected",
                                      <<None, None, MsgUnexpectedAttendance>>,
                                      events, r.D, r.I, TRUE, fetched,
                                      sought \o <<"Deciding", "Accepted">>))
                      ELSE LET student_id == r.student_ids[r.I[1] + 1]
                               name == r.names[r.I[1] + 1]
                               a == db_mark_attendance(events, student_id,
                                        course_id, "attend" \in F)
                               logged == sought \o <<"Deciding", "Accepted",
                                                     "Logging">>
                           IN  IF a.ok
                               THEN out("marked",
                                        <<Some(student_id), Some(name),
                                          a.message>>,
                                        a.rows, r.D, r.I, TRUE, fetched,
                                        logged)
                               ELSE out("attendance_failed",
                                        <<None, None, a.message>>, a.rows,
                                        r.D, r.I, TRUE,
                                        fetched \cup {"attend"}, logged)
                 ELSE out("rejected", NoMatchReturn, events,
                          r.D, r.I, TRUE, fetched,
                          sought \o <<"Deciding", "Rejected">>)

\* ------------------------------------------------------------------ app
\* The loop of the start-up block over COURSES, from position k on.  F
\* holds pairs <<site, course>>: "fetch" (the roster SELECT fails), "read"
\* (faiss.read_index fails), "write" (faiss.write_index fails).  An error
\* raised by build_index ends the script run; later courses get no entry.
RECURSIVE InitCourses(_, _, _, _, _)
InitCourses(k, rows, idx, dsk, F) ==
    IF k > Len(COURSES)
    THEN [indices |-> idx, disk |-> dsk, raised |-> FALSE, hit |-> {}]
    ELSE LET course_id == COURSES[k]
             st == fetch_students(rows, course_id, <<"fetch", course_id>> \in F)
             fetched == F \cap {<<"fetch", course_id>>}
         IN  IF st # None
             THEN LET b == build_index(idx, dsk,
                               [i \in 1..Len(st[1]) |-> st[1][i].embedding],
                               [i \in 1..Len(st[1]) |-> st[1][i].id],
                               [i \in 1..Len(st[1]) |-> st[1][i].name],
                               course_id, <<"write", course_id>> \in F)
                      hit == fetched \cup (F \cap {<<"write", course_id>>})
                  IN  IF b.raised
                      THEN [indices |-> b.indices, disk |-> b.disk,
                            raised |-> TRUE, hit |-> hit]
                      ELSE LET rest == InitCourses(k + 1, rows, b.indices,
                                                   b.disk, F)
                           IN  [rest EXCEPT !.hit = @ \cup hit]
             ELSE LET l == load_index(idx, dsk, course_id,
                                      <<"read", course_id>> \in F)
                      hit == fetched \cup
                                 (IF dsk[course_id] # None
                                  THEN F \cap {<<"read", course_id>>} ELSE {})
                      rest == InitCourses(k + 1, rows, l, dsk, F)
                  IN  [rest EXCEPT !.hit = @ \cup hit]

StartupFaults == {"fetch", "read", "write"} \X CourseIds

\* no script run is under way
Idle == obs.op = "none"

\* The first script run of a session: a new FaissIndex, then the loop over
\* COURSES.  The session serves requests afterwards, also when the loop
\* was cut short by an error.
Startup(F) ==
    LET out == InitCourses(1, students, EmptyDict, disk, F)
    IN  /\ Idle
        /\ faults + Cardinality(F) <= MaxFaults
        /\ out.hit = F
        /\ up' = TRUE
        /\ indices' = out.indices
        /\ disk' = out.disk
        /\ ret' = [NoRet EXCEPT !.op = "startup", !.ok = ~out.raised]
        /\ obs' = [NoObs EXCEPT !.op = "startup",
                                !.branch = IF out.raised THEN "raised"
                                           ELSE "initialised",
                                !.failed = F]
        /\ enrolled' = {}
        /\ faults' = faults + Cardinality(F)
        /\ UNCHANGED <<threads, students, attendance>>

\* The registration form is submitted: the handler's checks, then
\* register_student.
Enroll(student_id, name, course_id, image, F) ==
    LET out == register_student(students, indices, disk, student_id, name,
                                course_id, image, F)
    IN  /\ up /\ Idle
        /\ 1000 <= student_id /\ student_id <= 9999
        /\ name # "" /\ course_id # ""
        /\ faults + Cardinality(F) <= MaxFaults
        /\ out.hit = F
        /\ Len(out.rows) <= MaxStudents
        /\ \A c \in DOMAIN out.indices :
               out.indices[c].index # None
                   => Len(out.indices[c].index[1]) <= MaxVectors
        /\ students' = out.rows
        /\ indices' = out.indices
        /\ disk' = out.disk
        /\ ret' = [op |-> "enroll", ok |-> out.ok, student_id |-> None,
                   name |-> None, message |-> out.message]
        /\ obs' = [NoObs EXCEPT !.op = "enroll", !.branch = out.branch,
                                !.student_id = Some(student_id),
                                !.name = Some(name), !.course = course_id,
                                !.image = Some(image),
                                !.indexed = out.indexed, !.failed = F,
                                !.raised = out.raised]
        /\ enrolled' = IF out.ok
                       THEN enrolled \cup
                                {[student_id |-> student_id, name |-> name,
                                  course_id |-> course_id,
                                  embedding |-> extract_embedding(image).embedding]}
                       ELSE enrolled
        /\ faults' = faults + Cardinality(F)
        /\ UNCHANGED <<attendance, up, threads>>

\* An image is uploaded on the attendance tab: mark_attendance.
Recognize(image, course_id, F) ==
    LET out == mark_attendance(students, attendance, indices, image,
                               course_id, F)
    IN  /\ up /\ Idle
        /\ Len(attendance) < MaxAttendance
        /\ faults + Cardinality(F) <= MaxFaults
        /\ out.hit = F
        /\ attendance' = out.events
        /\ ret' = [op |-> "recognize", ok |-> out.result[1] # None,
                   student_id |-> out.result[1], name |-> out.result[2],
                   message |-> out.result[3]]
        /\ obs' = [NoObs EXCEPT !.op = "recognize", !.branch = out.branch,
                                !.course = course_id, !.image = Some(image),
                                !.D = out.D, !.I = out.I,
                                !.searched = out.searched, !.failed = F,
                                !.raised = out.raised, !.path = out.path]
        /\ faults' = faults + Cardinality(F)
        /\ UNCHANGED <<threads, students, disk, up, indices, enrolled>>

\* The script run ends: the result has been shown and its locals are gone.
EndRun ==
    /\ ~Idle
    /\ ret' = NoRet
    /\ obs' = NoObs
    /\ UNCHANGED <<threads, students, attendance, disk, up, indices, enrolled, faults>>

Init ==
    /\ students = <<>>
    /\ attendance = <<>>
    /\ disk = [c \in CourseIds |-> None]
    /\ up = FALSE
    /\ indices = EmptyDict
    /\ ret = NoRet
    /\ obs = NoObs
    /\ enrolled = {}
    /\ faults = 0
    /\ threads = [s \in Sessions |-> Resting]

Next ==
    \/ \E F \in SUBSET StartupFaults : Startup(F)
    \/ \E a \in Applicants, course_id \in CourseIds,
          image \in RegistrationImages,
          F \in SUBSET {"check", "insert", "file", "unexpected"} :
           Enroll(a.student_id, a.name, course_id, image, F)
    \/ \E image \in AttendanceImages, course_id \in CourseIds,
          F \in SUBSET {"fetch", "attend", "unexpected"} :
           Recognize(image, course_id, F)
    \/ EndRun

Spec == Init /\ [][Next]_vars

\* ------------------------------------------------------- FaissIndex alone
\* The operations of one FaissIndex object called directly, with every
\* argument a caller can pass, on the index files the calls leave behind.
\* Each caller passes lists of its own, as the start-up block does.
E0 == [dim |-> EMBEDDING_DIM, pt |-> 0]

E1 == [dim |-> EMBEDDING_DIM, pt |-> 1]

E3 == [dim |-> EMBEDDING_DIM, pt |-> 3]

ENarrow == [dim |-> 128, pt |-> 0]

\* arguments of build_index: the rows of `embeddings`, student_ids, names
BuildArgs == {<<<<>>, <<>>, <<>>>>,
              <<<<>>, <<1001>>, <<"Bob">>>>,
              <<<<E0>>, <<1000>>, <<"Ada">>>>,
              <<<<E1, E0>>, <<1001, 1000>>, <<"Bob", "Ada">>>>,
              <<<<E1, E0>>, <<1001>>, <<"Bob", "Ada">>>>,
              <<<<E0>>, <<1000>>, <<>>>>,
              <<<<ENarrow>>, <<1001>>, <<"Bob">>>>}

\* arguments of update_index
AppendArgs == {<<E0, 1000, "Ada">>, <<E1, 1001, "Bob">>, <<E3, 1000, "Ada">>,
               <<ENarrow, 1001, "Bob">>}

\* arguments of search
Queries == {E0, E1, E3, ENarrow}

\* vectors held in memory over all courses
TotalVectors(idx) ==
    LET n(c) == IF Uninitialised(idx, c) THEN 0 ELSE Len(idx[c].index[1])
    IN  n("") + n("AI") + n("GD")

\* vectors held in the index files of all courses
TotalPersisted(dsk) ==
    LET n(c) == IF dsk[c] = None THEN 0 ELSE Len(dsk[c][1])
    IN  n("") + n("AI") + n("GD")

\* FaissIndex(): a new object, the index files stay
NewFaissIndex ==
    /\ Idle
    /\ indices # EmptyDict
    /\ indices' = EmptyDict
    /\ ret' = [NoRet EXCEPT !.op = "new", !.ok = TRUE]
    /\ obs' = [NoObs EXCEPT !.op = "new"]
    /\ UNCHANGED <<threads, students, attendance, disk, up, enrolled, faults>>

\* build_index(embeddings, student_ids, names, course_id); ioError:
\* faiss.write_index fails.  ret.ok: the call returned, it did not raise.
Build(embeddings, student_ids, names, course_id, ioError) ==
    LET out == build_index(indices, disk, embeddings, student_ids, names,
                           course_id, ioError)
        reached == /\ Len(embeddings) # 0
                   /\ Len(embeddings) = Len(student_ids)
                   /\ Len(embeddings) = Len(names)
                   /\ \A i \in 1..Len(embeddings) :
                          embeddings[i].dim = EMBEDDING_DIM
    IN  /\ Idle
        /\ ioError => (reached /\ faults < MaxFaults)
        /\ TotalVectors(out.indices) <= MaxVectors
        /\ TotalPersisted(out.disk) <= MaxVectors
        /\ indices' = out.indices
        /\ disk' = out.disk
        /\ ret' = [NoRet EXCEPT !.op = "build", !.ok = ~out.raised]
        /\ obs' = [NoObs EXCEPT !.op = "build",
                                !.branch = IF out.raised THEN "raised"
                                           ELSE IF reached THEN "built"
                                           ELSE "nothing",
                                !.course = course_id,
                                !.args = <<embeddings, student_ids, names>>,
                                !.failed = IF ioError THEN {"write"} ELSE {}]
        /\ faults' = IF ioError THEN faults + 1 ELSE faults
        /\ UNCHANGED <<threads, students, attendance, up, enrolled>>

\* update_index(embedding, student_id, name, course_id); it returns None
\* on every path
AppendVector(embedding, student_id, name, course_id, ioError) ==
    LET out == update_index(indices, disk, embedding, student_id, name,
                            course_id, ioError)
    IN  /\ Idle
        /\ ioError => (embedding.dim = EMBEDDING_DIM /\ faults < MaxFaults)
        /\ TotalVectors(out.indices) <= MaxVectors
        /\ TotalPersisted(out.disk) <= MaxVectors
        /\ indices' = out.indices
        /\ disk' = out.disk
        /\ ret' = [NoRet EXCEPT !.op = "append", !.ok = TRUE]
        /\ obs' = [NoObs EXCEPT !.op = "append",
                                !.branch = IF out.logged_error
                                           THEN "logged_error" ELSE "added",
                                !.course = course_id,
                                !.args = <<embedding, student_id, name>>,
                                !.indexed = ~out.logged_error,
                                !.failed = IF ioError THEN {"file"} ELSE {}]
        /\ faults' = IF ioError THEN faults + 1 ELSE faults
        /\ UNCHANGED <<threads, students, attendance, up, enrolled>>

\* load_index(course_id); ioError: faiss.read_index fails
LoadPersisted(course_id, ioError) ==
    /\ Idle
    /\ ioError => (disk[course_id] # None /\ faults < MaxFaults)
    /\ indices' = load_index(indices, disk, course_id, ioError)
    /\ TotalVectors(indices') <= MaxVectors
    /\ ret' = [NoRet EXCEPT !.op = "load", !.ok = TRUE]
    /\ obs' = [NoObs EXCEPT !.op = "load",
                            !.branch = IF indices'[course_id].index = None
                                       THEN "disabled" ELSE "loaded",
                            !.course = course_id,
                            !.failed = IF ioError THEN {"read"} ELSE {}]
    /\ faults' = IF ioError THEN faults + 1 ELSE faults
    /\ UNCHANGED <<threads, students, attendance, disk, up, enrolled>>

\* search(embedding, course_id) with k = 1
Query(embedding, course_id) ==
    LET r == search(indices, embedding, course_id)
    IN  /\ Idle
        /\ ret' = [NoRet EXCEPT !.op = "query", !.ok = TRUE]
        /\ obs' = [NoObs EXCEPT !.op = "query",
                                !.branch = IF r.D = None THEN "sentinel"
                                           ELSE "found",
                                !.course = course_id,
                                !.args = <<embedding>>,
                                !.D = r.D, !.I = r.I,
                                !.searched = TRUE,
                                !.result = <<r.D, r.I, r.student_ids,
                                             r.names>>]
        /\ UNCHANGED <<threads, students, attendance, disk, up, indices, enrolled,
                       faults>>

IndexNext ==
    \/ NewFaissIndex
    \/ \E b \in BuildArgs, course_id \in CourseIds, ioError \in BOOLEAN :
           Build(b[1], b[2], b[3], course_id, ioError)
    \/ \E a \in AppendArgs, course_id \in CourseIds, ioError \in BOOLEAN :
           AppendVector(a[1], a[2], a[3], course_id, ioError)
    \/ \E course_id \in CourseIds, ioError \in BOOLEAN :
           LoadPersisted(course_id, ioError)
    \/ \E embedding \in Queries, course_id \in CourseIds :
           Query(embedding, course_id)
    \/ EndRun

IndexSpec == Init /\ [][IndexNext]_vars

\* ------------------------------------------------- sessions side by side
\* Streamlit runs every session's script in a thread of its own.  The
\* sessions share the index files; no function of the repository takes a
\* lock.  update_index and load_index are split at their file operation.

\* update_index up to faiss.write_index: the session's own index has the
\* vector, the file of the course is about to be rewritten
BeginAppend(s, embedding, student_id, name, course_id) ==
    LET u == update_index(threads[s].indices, disk, embedding, student_id,
                          name, course_id, FALSE)
    IN  /\ threads[s].pc = "idle"
        /\ embedding.dim = EMBEDDING_DIM
        /\ TotalVectors(u.indices) <= MaxVectors
        /\ threads' = [threads EXCEPT ![s].pc = "write",
                                      ![s].course = course_id,
                                      ![s].indices = u.indices]
        /\ UNCHANGED <<students, attendance, disk, up, indices, ret, obs,
                       enrolled, faults>>

\* faiss.write_index returns: the file holds this session's vectors
EndAppend(s) ==
    /\ threads[s].pc = "write"
    /\ disk' = [disk EXCEPT ![threads[s].course] =
                    threads[s].indices[threads[s].course].index]
    /\ threads' = [threads EXCEPT ![s].pc = "idle"]
    /\ UNCHANGED <<students, attendance, up, indices, ret, obs, enrolled,
                   faults>>

\* load_index up to faiss.read_index: the file of the course is open
BeginLoad(s, course_id) ==
    /\ threads[s].pc = "idle"
    /\ disk[course_id] # None
    /\ threads' = [threads EXCEPT ![s].pc = "read", ![s].course = course_id]
    /\ UNCHANGED <<students, attendance, disk, up, indices, ret, obs,
                   enrolled, faults>>

\* faiss.read_index returns: the session's index is what the file holds
EndLoad(s) ==
    /\ threads[s].pc = "read"
    /\ threads' = [threads EXCEPT
                       ![s].pc = "idle",
                       ![s].indices = load_index(threads[s].indices, disk,
                                                 threads[s].course, FALSE)]
    /\ UNCHANGED <<students, attendance, disk, up, indices, ret, obs,
                   enrolled, faults>>

\* what register_student passes to update_index: an embedding of width D
\* and a course id that the registration form accepted
SessionAppends == {a \in AppendArgs : a[1] \in {E0, E1}}

ConcNext ==
    \/ \E s \in Sessions, a \in SessionAppends,
          course_id \in CourseIds \ {""} :
           BeginAppend(s, a[1], a[2], a[3], course_id)
    \/ \E s \in Sessions : EndAppend(s)
    \/ \E s \in Sessions, course_id \in CourseIds : BeginLoad(s, course_id)
    \/ \E s \in Sessions : EndLoad(s)

ConcSpec == Init /\ [][ConcNext]_vars

\* ------------------------------------------- registrations side by side
\* register_student served by the sessions at once.  The sessions share the
\* SQLite file and the index files; each has the Database connection and
\* the FaissIndex its start-up block made.  The call is split where it
\* touches what is shared: the SELECT of check_duplicate, the INSERT of
\* db.register_student, faiss.write_index.

\* the start-up block of a new script run of session s (no failure)
SessionStartup(s) ==
    LET out == InitCourses(1, students, EmptyDict, disk, {})
    IN  /\ threads[s].pc = "idle"
        /\ threads' = [threads EXCEPT ![s].indices = out.indices]
        /\ disk' = out.disk
        /\ UNCHANGED <<students, attendance, up, indices, ret, obs, enrolled,
                       faults>>

\* register_student from its entry to the return of a failed gate, or to
\* the call of db.register_student: duplicate check, extraction, width test
BeginEnroll(s, student_id, name, course_id, image) ==
    LET dup == check_duplicate(students, student_id, course_id, FALSE)
        ex == extract_embedding(image)
        racing == {t \in Sessions \ {s} :
                      /\ threads[t].pc \in {"insert", "write"}
                      /\ threads[t].student_id = Some(student_id)
                      /\ threads[t].course = course_id}
        call == [threads[s] EXCEPT !.course = course_id,
                                   !.student_id = Some(student_id),
                                   !.name = Some(name),
                                   !.embedding = None,
                                   !.result = None,
                                   !.overlapped = racing # {}]
        stopped == \/ dup
                   \/ ex.embedding = None
                   \/ ex.embedding[1].dim # EMBEDDING_DIM
    IN  /\ threads[s].pc = "idle"
        /\ threads' = [t \in Sessions |->
                           IF t = s
                           THEN IF stopped
                                THEN [call EXCEPT !.name = None,
                                                  !.result = Some(FALSE)]
                                ELSE [call EXCEPT !.pc = "insert",
                                                  !.embedding = ex.embedding]
                           ELSE IF t \in racing
                           THEN [threads[t] EXCEPT !.overlapped = TRUE]
                           ELSE threads[t]]
        /\ UNCHANGED <<students, attendance, disk, up, indices, ret, obs,
                       enrolled, faults>>

\* db.register_student commits, then update_index up to faiss.write_index:
\* the session's own index has the vector
InsertStudent(s) ==
    LET me == threads[s]
        w == db_register_student(students, me.student_id[1], me.name[1],
                                 me.course, me.embedding[1], FALSE)
        u == update_index(me.indices, disk, me.embedding[1],
                          me.student_id[1], me.name[1], me.course, FALSE)
    IN  /\ me.pc = "insert"
        /\ Len(w.rows) <= MaxStudents
        /\ students' = w.rows
        /\ threads' = [threads EXCEPT ![s].pc = "write",
                                      ![s].indices = u.indices]
        /\ UNCHANGED <<attendance, disk, up, indices, ret, obs, enrolled,
                       faults>>

\* faiss.write_index returns and register_student returns (True, ...)
FinishEnroll(s) ==
    /\ threads[s].pc = "write"
    /\ disk' = [disk EXCEPT ![threads[s].course] =
                    threads[s].indices[threads[s].course].index]
    /\ threads' = [threads EXCEPT ![s].pc = "idle",
                                  ![s].name = None,
                                  ![s].embedding = None,
                                  ![s].result = Some(TRUE)]
    /\ UNCHANGED <<students, attendance, up, indices, ret, obs, enrolled,
                   faults>>

\* images uploaded on the registration forms of the sessions
SessionImages == {NoFace, Face(0)}

SessionNext ==
    \/ \E s \in Sessions : SessionStartup(s)
    \/ \E s \in Sessions, a \in Applicants, course_id \in CourseIds \ {""},
          image \in SessionImages :
           BeginEnroll(s, a.student_id, a.name, course_id, image)
    \/ \E s \in Sessions : InsertStudent(s)
    \/ \E s \in Sessions : FinishEnroll(s)

SessionSpec == Init /\ [][SessionNext]_vars

\* ============================================================ properties
\* vectors held by the session's index of a course
VectorCount(c) ==
    IF Uninitialised(indices, c) THEN 0 ELSE Len(indices[c].index[1])

\* records of a course in the students table
RecordCount(c) ==
    Cardinality({i \in 1..Len(students) : students[i].course_id = c})

\* this step is a call of register_student / of mark_attendance
EnrollStep == Idle /\ obs'.op = "enroll"

RecognizeStep == Idle /\ obs'.op = "recognize"

\* C1: enroll() with a (studentId, courseId) pair already in the store
\* returns failure with the duplicate message and changes neither the store
\* nor any in-memory or persisted index.
C1_DuplicateRejected ==
    [][(EnrollStep /\ HasRow(students, obs'.student_id[1], obs'.course))
           => /\ ~ret'.ok
              /\ ret'.message = MsgDuplicate
              /\ UNCHANGED <<students, indices, disk>>]_vars

\* C2: after start-up and any enrolments, every course's index holds as
\* many vectors as the store holds records of that course.  Stated for the
\* runs in which no storage or file operation has failed.
C2_IndexMatchesStore ==
    (up /\ faults = 0) =>
        \A c \in CourseIds : VectorCount(c) = RecordCount(c)

\* C3: when recognize() accepts the match at position i, the identifier and
\* name it returns are those the vector at position i was added with.
C3_AcceptedMatchIsOwner ==
    (obs.op = "recognize" /\ ret.student_id # None) =>
        indices[obs.course].index[1][obs.I[1] + 1].by
            = <<ret.student_id[1], ret.name[1]>>

\* C4: once enroll(s, name, c) has succeeded with embedding e, a recognize()
\* on c in the same session whose embedding is e returns s and that name,
\* when no other student of c has the same embedding.  Stated for the
\* recognitions in which no store operation fails.
C4_EnrolledIsRecognized ==
    \A e \in enrolled :
        (/\ obs.op = "recognize"
         /\ obs.failed = {}
         /\ obs.course = e.course_id
         /\ extract_embedding(obs.image[1]).embedding = e.embedding
         /\ \A i \in 1..Len(students) :
                (students[i].course_id = e.course_id
                     /\ students[i].id # e.student_id)
                    => Some(students[i].embedding) # e.embedding)
            => (ret.student_id = Some(e.student_id)
                    /\ ret.name = Some(e.name))

\* the least squared distance of the probe to the vectors the searched
\* course index holds
ProbeDistance ==
    LET index == indices[obs.course].index[1]
        q == extract_embedding(obs.image[1]).embedding[1]
    IN  CHOOSE d \in {Distance(index[i].embedding, q) : i \in 1..Len(index)} :
            \A i \in 1..Len(index) : d <= Distance(index[i].embedding, q)

\* the call went past the threshold test into the accept branch
TookAcceptBranch ==
    ret.message \in {MsgMarked, MsgInvalidIndex, MsgAttendanceError}

\* C5: recognize() accepts the nearest match iff its squared distance is
\* strictly below the threshold; at or above it the call is rejected with
\* (None, None, not-registered).
C5_StrictThreshold ==
    (obs.op = "recognize" /\ obs.D # None) =>
        /\ obs.D[1] = ProbeDistance
        /\ TookAcceptBranch <=> ProbeDistance < FAISS_THRESHOLD
        /\ ProbeDistance >= FAISS_THRESHOLD =>
               (/\ ret.student_id = None
                /\ ret.name = None
                /\ ret.message = MsgNotRegistered)

C5_Witness ==
    /\ obs.op = "recognize"
    /\ obs.D = Some(FAISS_THRESHOLD)
    /\ ret.message = MsgNotRegistered

C7_FailedEnrollChangesNothing ==
    [][(EnrollStep /\ ~ret'.ok) => UNCHANGED <<students, indices, disk>>]_vars

C7_Witness ==
    /\ obs.op = "enroll"
    /\ obs.branch = "db_failed"
    /\ ~ret.ok
    /\ ret.message = MsgDbError

\* C8: when the index append of enroll() fails after the store write, the
\* record stays in the store and the returned outcome differs from that of
\* an enrolment whose index append succeeded.
C8_IndexSyncFailureReported ==
    (obs.op = "enroll" /\ obs.branch = "registered" /\ ~obs.indexed) =>
        /\ HasRow(students, obs.student_id[1], obs.course)
        /\ ~(ret.ok /\ ret.message = MsgRegistered)

\* C9: whatever the reason no student is identified (no enrolled students,
\* index absent, empty or unsearchable, nearest match at or beyond the
\* threshold), recognize() returns the same triple (None, None,
\* not-registered).
C9_UniformRejection ==
    (/\ obs.op = "recognize"
     /\ obs.branch \in {"no_students", "search_failed", "rejected"}) =>
        /\ ret.student_id = None
        /\ ret.name = None
        /\ ret.message = MsgNotRegistered

C9_Witness ==
    /\ obs.op = "recognize"
    /\ obs.branch = "rejected"
    /\ obs.D # None /\ obs.D[1] > FAISS_THRESHOLD
    /\ ret.message = MsgNotRegistered

\* C10: recognize() on a course with zero enrolled students returns (None,
\* None, not-registered) and never a student.  Stated for the images whose
\* extraction succeeds, in runs without any storage or file failure.
C10_EmptyCourseNeverRecognizes ==
    (/\ obs.op = "recognize"
     /\ faults = 0
     /\ obs.image[1].face
     /\ RecordCount(obs.course) = 0) =>
        /\ ret.student_id = None
        /\ ret.name = None
        /\ ret.message = MsgNotRegistered

\* C11: after appendVector(e, s, name, c) with e of width D, query(e, c)
\* returns distance 0 and, at the returned position, the identifier s and
\* the name that were appended.  Stated for the appends before which the
\* course index held no vector equal to e.
C11_SelfMatch ==
    (/\ obs.op = "append"
     /\ obs.args[1].dim = EMBEDDING_DIM
     /\ \A i \in 1..(Len(indices[obs.course].index[1]) - 1) :
            indices[obs.course].index[1][i].embedding # obs.args[1]) =>
        LET r == search(indices, obs.args[1], obs.course)
        IN  /\ r.D = Some(0)
            /\ r.I # None
            /\ r.I[1] < Len(r.student_ids)
            /\ r.I[1] < Len(r.names)
            /\ r.student_ids[r.I[1] + 1] = obs.args[2]
            /\ r.names[r.I[1] + 1] = obs.args[3]

\* update_index applied to the items of W in order
RECURSIVE AppendAll(_, _, _, _)
AppendAll(idx, dsk, W, course_id) ==
    IF W = <<>> THEN [indices |-> idx, disk |-> dsk]
    ELSE LET u == update_index(idx, dsk, W[1][1], W[1][2], W[1][3],
                               course_id, FALSE)
         IN  AppendAll(u.indices, u.disk, Tail(W), course_id)

\* the k-th components of the items of W, as a list
Column(W, k) == [i \in 1..Len(W) |-> W[i][k]]

\* build arguments of equal lengths and width D; items to append of width D
WellFormedBuilds ==
    {b \in BuildArgs :
        /\ Len(b[1]) = Len(b[2]) /\ Len(b[1]) = Len(b[3])
        /\ \A i \in 1..Len(b[1]) : b[1][i].dim = EMBEDDING_DIM}

Appendables == {<<>>, <<<<E3, 1000, "Ada">>>>,
                <<<<E1, 1001, "Bob">>, <<E3, 1000, "Ada">>>>}

\* C12: from any state of a FaissIndex, build(V) followed by appendVector
\* of W1..Wn answers every query (distance, position, identifier and name
\* lists) as a single build(V \o W) does.
C12_IncrementalEqualsRebuild ==
    \A c \in CourseIds, b \in WellFormedBuilds, W \in Appendables,
       q \in Queries :
        LET first == build_index(indices, disk, b[1], b[2], b[3], c, FALSE)
            grown == AppendAll(first.indices, first.disk, W, c)
            whole == build_index(indices, disk, b[1] \o Column(W, 1),
                                 b[2] \o Column(W, 2), b[3] \o Column(W, 3),
                                 c, FALSE)
        IN  search(grown.indices, q, c) = search(whole.indices, q, c)

\* C13: from any state of a FaissIndex, a build() that persists the course
\* index followed by loadPersisted() gives an index with the same vectors
\* in the same order, the same query distances, and empty identifier and
\* name lists however many vectors were loaded.
C13_LossyRoundTrip ==
    \A c \in CourseIds, b \in WellFormedBuilds :
        b[1] # <<>> =>
            LET built == build_index(indices, disk, b[1], b[2], b[3], c,
                                     FALSE)
                loaded == load_index(built.indices, built.disk, c, FALSE)
            IN  /\ ~built.raised
                /\ loaded[c].index # None
                /\ Len(loaded[c].index[1]) = Len(b[1])
                /\ \A i \in 1..Len(b[1]) :
                       loaded[c].index[1][i].embedding = b[1][i]
                /\ loaded[c].student_ids = <<>>
                /\ loaded[c].names = <<>>
                /\ \A q \in Queries :
                       search(loaded, q, c).D
                           = search(built.indices, q, c).D

\* a course index just loaded from a file that a build() wrote
C13_Witness ==
    /\ obs.op = "load"
    /\ obs.branch = "loaded"
    /\ Len(indices[obs.course].index[1]) = 2
    /\ indices[obs.course].index = disk[obs.course]
    /\ indices[obs.course].student_ids = <<>>
    /\ indices[obs.course].names = <<>>

\* this step is a direct call of search / build_index / update_index
QueryStep == Idle /\ obs'.op = "query"

BuildStep == Idle /\ obs'.op = "build"

AppendStep == Idle /\ obs'.op = "append"

\* (None, None, [], [])
Sentinel == <<None, None, <<>>, <<>>>>

\* C14: query() always returns; when the course has no index, the index
\* holds no vector, or the query's width is not D, it returns the sentinel
\* (no distances, no positions); it never changes an index or a file.
C14_QuerySentinel ==
    [][QueryStep =>
           /\ ret'.ok
           /\ UNCHANGED <<indices, disk>>
           /\ (\/ Uninitialised(indices, obs'.course)
               \/ Len(indices[obs'.course].index[1]) = 0
               \/ obs'.args[1].dim # EMBEDDING_DIM)
                  => obs'.result = Sentinel]_vars

\* a query of the wrong width on a course that holds vectors
C14_Witness ==
    /\ obs.op = "query"
    /\ obs.args[1].dim # EMBEDDING_DIM
    /\ ~Uninitialised(indices, obs.course)
    /\ Len(indices[obs.course].index[1]) > 0
    /\ obs.result = Sentinel

\* C15: build() with embeddings, identifiers and names that are not all of
\* the same length fails (it raises), also when there are zero embeddings
\* and some identifiers or names, and leaves the course's in-memory index
\* and file unchanged.
C15_LengthMismatchFails ==
    [][(BuildStep /\ (\/ Len(obs'.args[1]) # Len(obs'.args[2])
                      \/ Len(obs'.args[1]) # Len(obs'.args[3])))
           => (~ret'.ok /\ UNCHANGED <<indices, disk>>)]_vars

\* C16: build() with no embeddings is not an error, writes no file, and
\* afterwards the course has no in-memory index.
C16_EmptyBuildLeavesAbsent ==
    [][(BuildStep /\ obs'.args[1] = <<>>)
           => /\ ret'.ok
              /\ disk' = disk
              /\ Uninitialised(indices', obs'.course)]_vars

\* C17: appendVector() with an embedding whose width is not D leaves the
\* course's vectors, identifiers, names and file unchanged, and its caller
\* gets an outcome that differs from that of an append that succeeded.
C17_DimensionMismatchSurfaced ==
    [][(AppendStep /\ obs'.args[1].dim # EMBEDDING_DIM)
           => /\ UNCHANGED <<indices, disk>>
              /\ ret' # [NoRet EXCEPT !.op = "append", !.ok = TRUE]]_vars

\* this step is a direct call of one operation of FaissIndex on a course
CourseStep == Idle /\ obs'.op \in {"build", "append", "load", "query"}

\* C18: build, appendVector, loadPersisted or query on course A leaves the
\* in-memory index, the identifier and name lists and the file of every
\* other course B as they were, and no query on B answers differently.
C18_CoursesAreIndependent ==
    [][CourseStep =>
           \A B \in CourseIds \ {obs'.course} :
               /\ (B \in DOMAIN indices') = (B \in DOMAIN indices)
               /\ B \in DOMAIN indices => indices'[B] = indices[B]
               /\ disk'[B] = disk[B]
               /\ \A q \in Queries :
                      search(indices', q, B) = search(indices, q, B)]_vars

\* a vector was appended to one course while another course holds vectors
C18_Witness ==
    /\ obs.op = "append"
    /\ obs.branch = "added"
    /\ \E B \in CourseIds \ {obs.course} :
           /\ ~Uninitialised(indices, B)
           /\ Len(indices[B].index[1]) > 0
           /\ disk[B] # None

\* C19: while one caller mutates a course's index (the vectors and their
\* file), no other caller reads or mutates the index of that course.
C19_PerCourseExclusion ==
    \A s, t \in Sessions :
        (/\ s # t
         /\ threads[s].pc = "write"
         /\ threads[t].pc # "idle") => threads[s].course # threads[t].course

\* C20: when an enroll() or recognize() request for a course is served,
\* the start-up routine of the session has rebuilt or loaded the index of
\* that course, also after a start-up in which a build failed.
C20_ColdStartBarrier ==
    [][(EnrollStep \/ RecognizeStep)
           => obs'.course \in DOMAIN indices]_vars

\* C21: fetchByCourse returns null only on a store-level failure; for a
\* course with zero records it returns a result distinct from null, so a
\* recognition that stopped for want of a roster, with no failure of the
\* store in that call, cannot have met a course without records.
C21_NullOnlyOnFailure ==
    (obs.op = "recognize" /\ obs.branch = "no_students" /\ obs.failed = {})
        => RecordCount(obs.course) > 0

\* C22: enroll() and recognize() never raise to their caller, and a call
\* during which the store, the extractor or the index failed, an unexpected
\* failure included, returns a failure result (false / no identifiers) that
\* carries a message.
C22_FailuresBecomeFailureResults ==
    obs.op \in {"enroll", "recognize"}
        => /\ ~obs.raised
           /\ ret.message # ""
           /\ obs.failed # {} => (~ret.ok /\ ret.student_id = None)

\* C23: each recognize() call is one linear attempt: its steps are an
\* initial part of Extracting, (Fetching,) Searching, Deciding, Accepted,
\* Logging or of Extracting, (Fetching,) Searching, Deciding, Rejected, so no
\* step runs twice; the attendance log is written at most once and only in
\* a call that took the accept decision; and the call ends in exactly one
\* outcome, a returned triple that either names a student or does not.
AcceptPath ==
    <<"Extracting", "Fetching", "Searching", "Deciding", "Accepted", "Logging">>

RejectPath ==
    <<"Extracting", "Fetching", "Searching", "Deciding", "Rejected">>

IsPrefix(p, q) == Len(p) <= Len(q) /\ SubSeq(q, 1, Len(p)) = p

C23_SingleLinearAttempt ==
    [][RecognizeStep =>
        /\ obs'.path # <<>>
        /\ IsPrefix(obs'.path, AcceptPath) \/ IsPrefix(obs'.path, RejectPath)
        /\ attendance' # attendance =>
              /\ obs'.path = AcceptPath
              /\ Len(attendance') = Len(attendance) + 1
        /\ obs'.path # AcceptPath => attendance' = attendance
        /\ ~obs'.raised
        /\ ret'.message # ""
        /\ (ret'.student_id = None) = (ret'.name = None)
        /\ ret'.student_id # None => obs'.path = AcceptPath]_vars

C23_Witness ==
    /\ obs.op = "recognize"
    /\ obs.path = AcceptPath
    /\ attendance # <<>>
    /\ ret.student_id # None

\* C24: when recognize() accepts a nearest neighbour whose position lies
\* outside the identifier sequence of the course (an index loaded from its
\* file and not rebuilt has none), the call fails with the invalid-index
\* result: it returns no student and writes no attendance event.
PositionOutOfBounds ==
    /\ obs'.D # None /\ obs'.D[1] < FAISS_THRESHOLD
    /\ obs'.I[1] + 1 \notin DOMAIN indices[obs'.course].student_ids

C24_OutOfBoundsIsCorruption ==
    [][(RecognizeStep /\ PositionOutOfBounds) =>
        /\ ret'.student_id = None
        /\ ret'.name = None
        /\ ret'.message = MsgInvalidIndex
        /\ attendance' = attendance]_vars

C24_Witness ==
    /\ obs.op = "recognize"
    /\ obs.branch = "invalid_index"
    /\ obs.I # None
    /\ Len(indices[obs.course].index) > obs.I[1]
    /\ indices[obs.course].student_ids = <<>>
    /\ ret.message = MsgInvalidIndex

\* C25: after every build() or appendVector() call that got as far as
\* changing the index of its course, whether the call then succeeded or
\* failed, the file of that course holds exactly the vector sequence of the
\* in-memory index of that course.
InMemory(c) ==
    IF c \in DOMAIN indices THEN indices[c].index ELSE None

C25_PersistedEqualsInMemory ==
    (/\ obs.op \in {"build", "append"}
     /\ obs.branch \in {"built", "added"} \/ obs.failed # {})
        => disk[obs.course] = InMemory(obs.course)

\* C26: in an enroll() call the extractor runs only after the duplicate
\* check, and it is not invoked at all when the (student, course) pair was
\* in the store at the time of the call.
ExtractorInvoked(branch) ==
    branch \in {"extract_failed", "bad_dim", "db_failed", "registered"}

C26_NoExtractionForDuplicate ==
    [][(/\ EnrollStep
        /\ HasRow(students, obs'.student_id[1], obs'.course))
            => ~ExtractorInvoked(obs'.branch)]_vars

\* C27: every attendance event written refers to a (student, course) pair
\* that is a record of the store, and recognize() on course c returns only
\* a student enrolled in c, for every configured course identifier, the
\* empty one included.
C27_AttendanceRefersToEnrolment ==
    /\ \A i \in 1..Len(attendance) :
           HasRow(students, attendance[i].student_id, attendance[i].course_id)
    /\ (obs.op = "recognize" /\ ret.student_id # None)
           => HasRow(students, ret.student_id[1], obs.course)

\* C28: enroll() never replaces or alters a record of the store: every
\* record present before the call is present after it with the same name
\* and the same embedding, also when the duplicate-check query of the call
\* fails.
C28_RecordsAreNeverReplaced ==
    [][EnrollStep =>
        \A i \in 1..Len(students) :
            \E j \in 1..Len(students') : students'[j] = students[i]]_vars

\* C29: when two enroll() calls for the same (student, course) pair
\* overlap in time, at most one of them returns success, and the index of
\* the course, in either session and in its file, has at most one entry
\* for that student.
EntriesFor(student_ids, student_id) ==
    Cardinality({i \in 1..Len(student_ids) : student_ids[i] = student_id})

PersistedFor(c, student_id) ==
    IF disk[c] = None THEN 0
    ELSE Cardinality({i \in 1..Len(disk[c][1]) :
                         disk[c][1][i].by[1] = student_id})

C29_OverlappingEnrollsOneWinner ==
    \A s, t \in Sessions :
        (/\ s # t
         /\ threads[s].overlapped /\ threads[t].overlapped
         /\ threads[s].student_id = threads[t].student_id
         /\ threads[s].course = threads[t].course
         /\ threads[s].result # None /\ threads[t].result # None)
            => /\ ~(threads[s].result = Some(TRUE)
                      /\ threads[t].result = Some(TRUE))
               /\ PersistedFor(threads[s].course,
                               threads[s].student_id[1]) <= 1
               /\ threads[s].course \in DOMAIN threads[s].indices
                      => EntriesFor(threads[s].indices[threads[s].course]
                                        .student_ids,
                                    threads[s].student_id[1]) <= 1

\* C30: with several sessions at work, each with an index of its own over
\* the shared store and the shared files, a vector that a completed
\* enrollment put into the file of its course is still there after any
\* enrollment that another session completes.
Persisted(c) == IF disk[c] = None THEN <<>> ELSE disk[c][1]

C30_EnrollmentsKeepPersistedVectors ==
    [][(\E s \in Sessions :
            threads[s].pc = "write" /\ threads'[s].result = Some(TRUE))
        => \A c \in CourseIds :
               \A i \in 1..Len(Persisted(c)) :
                   \E j \in 1..Len(Persisted(c)') :
                       Persisted(c)'[j] = Persisted(c)[i]]_vars

====
